---- MODULE Spec2Model ----
(***************************************************************************)
(* Model of gdnative-async/src/rt.rs: the Context facade over the          *)
(* resumable handle (FuncState), the suspension cell (future::make), the   *)
(* one-shot event bridge (SignalBridge), and the process-wide one-time     *)
(* registration (REGISTRATION / register_runtime).                         *)
(*                                                                         *)
(* rt.rs is modelled from its code.  The modules it calls into             *)
(* (func_state, bridge, future) are modelled from the design document.     *)
(***************************************************************************)
EXTENDS Integers, Sequences, FiniteSets, TLC

\* ---------------------------------------------------------------- bounds
MaxCells == 2          \* suspension cells (futures) created in one run
MaxCalls == 4          \* register_runtime calls started in one run
NumThreads == 3        \* threads calling register_runtime

Variants == {1, 2}                     \* host values (Variant)
Threads == 1..NumThreads
SignalNames == {"finished"}            \* events the source object exposes
RequestedNames == {"finished", "missing"}
HostClasses == {"SignalBridge", "FuncState"}

\* Option<T>: None is <<>>, Some(x) is <<x>>
None == <<>>
Some(x) == <<x>>

\* event payloads the source emits: ordered sequences of host values
Payloads == {<<>>, <<1>>, <<1, 2>>, <<2, 1>>}

VARIABLES
    REGISTRATION,   \* OnceCell<()>: "Uninit", "Running" (closure executing), "Init"
    rtpc,           \* per thread: position inside register_runtime
    called,         \* per thread: the local `called`
    rtret,          \* per thread: result of its last finished register_runtime call
    registered,     \* per host class: number of add_class calls received by the host
    bridge_terminated, \* the bridge machinery has been shut down (bridge::terminate)
    cells,          \* suspension cells, in creation order
    func_state,     \* the Context's resumable handle
    connections,    \* live event subscriptions: records [name, cell]
    notified,       \* number of "resumable" notifications emitted by the handle
    ret,            \* result of the last Context-level operation
    \* history variables, used only to state properties
    h_seq,          \* per thread: ordinal of its current/last call among all calls
    h_ncalls,       \* number of register_runtime calls started
    h_added,        \* per thread: add_class calls made by its current/last call
    h_stat,         \* register_runtime calls so far that returned Ok (ok), returned
                    \* InitError (err), had to wait for a running registration (blocked)
    h_late,         \* per thread: its current/last call started after a completed
                    \* registration and a terminate_runtime
    h_expect,       \* per cell: the value the cell's future was promised
    h_pendingUR,    \* most recent until_resume future with no resolve since (0: none)
    h_superseded,   \* per cell: the until_resume future that superseded it (0: none)
    h_sub,          \* per cell: event name a live signal() future subscribed to ("": none)
    h_after,        \* per cell: "fail" or "noop" when the until_resume that made it
                    \* came right after such an operation, "" otherwise
    h_yielded,      \* per cell: value its future has yielded
    h_last          \* what the last operation was: "until_resume", "signal" or "fail"
                    \* (signal() returned the future / the error), "resolve" or "noop"
                    \* (Context.resolve on an armed / unarmed handle), "resume", "emit"
                    \* or "reemit" (an emission after the first, with another payload),
                    \* "poll", "drop", "make", "write" or "rewrite" (a second write to
                    \* a cell, with another value), "" (none yet)

rtvars == <<REGISTRATION, rtpc, called, rtret, registered, bridge_terminated>>
ctxvars == <<cells, func_state, connections, notified>>
hrtvars == <<h_seq, h_ncalls, h_added, h_stat, h_late>>
hctxvars == <<h_expect, h_pendingUR, h_superseded, h_sub, h_after, h_yielded, h_last>>
vars == <<rtvars, ctxvars, ret, hrtvars, hctxvars>>

CellIds == 1..MaxCells

\* ------------------------------------------------------------------ Init
\* Context::new(): a fresh handle in Idle state; nothing registered yet.
Context_new == [kind |-> "Idle", resume |-> 0]

Init ==
    /\ REGISTRATION = "Uninit"
    /\ rtpc = [t \in Threads |-> "idle"]
    /\ called = [t \in Threads |-> FALSE]
    /\ rtret = [t \in Threads |-> "none"]
    /\ registered = [k \in HostClasses |-> 0]
    /\ bridge_terminated = FALSE
    /\ cells = <<>>
    /\ func_state = Context_new
    /\ connections = {}
    /\ notified = 0
    /\ ret = "Ok"
    /\ h_seq = [t \in Threads |-> 0]
    /\ h_ncalls = 0
    /\ h_added = [t \in Threads |-> 0]
    /\ h_stat = [ok |-> 0, err |-> 0, blocked |-> 0]
    /\ h_late = [t \in Threads |-> FALSE]
    /\ h_expect = [c \in CellIds |-> None]
    /\ h_pendingUR = 0
    /\ h_superseded = [c \in CellIds |-> 0]
    /\ h_sub = [c \in CellIds |-> ""]
    /\ h_after = [c \in CellIds |-> ""]
    /\ h_yielded = [c \in CellIds |-> None]
    /\ h_last = ""

\* ------------------------------------------------- register_runtime (rt.rs)
\* variant: check-then-set without mutual exclusion: a caller that arrives
\* while the closure is running runs it too
register_runtime_enter_racy(t) ==
    /\ rtpc[t] = "idle"
    /\ called' = [called EXCEPT ![t] = FALSE]
    /\ rtret' = [rtret EXCEPT ![t] = "none"]
    /\ IF REGISTRATION # "Init"
       THEN /\ REGISTRATION' = "Running"
            /\ rtpc' = [rtpc EXCEPT ![t] = "add_bridge"]
       ELSE /\ UNCHANGED REGISTRATION
            /\ rtpc' = [rtpc EXCEPT ![t] = "check"]
    /\ UNCHANGED registered

\* variant: a caller that arrives while the closure is running does not wait
register_runtime_enter_nonblocking(t) ==
    /\ rtpc[t] = "idle"
    /\ called' = [called EXCEPT ![t] = FALSE]
    /\ rtret' = [rtret EXCEPT ![t] = "none"]
    /\ IF REGISTRATION = "Uninit"
       THEN /\ REGISTRATION' = "Running"
            /\ rtpc' = [rtpc EXCEPT ![t] = "add_bridge"]
       ELSE /\ UNCHANGED REGISTRATION
            /\ rtpc' = [rtpc EXCEPT ![t] = "check"]
    /\ UNCHANGED registered

\* variant: the closure is run on every call instead of through the OnceCell
register_runtime_enter_unguarded(t) ==
    /\ rtpc[t] = "idle"
    /\ called' = [called EXCEPT ![t] = FALSE]
    /\ rtret' = [rtret EXCEPT ![t] = "none"]
    /\ IF REGISTRATION # "Running"
       THEN /\ REGISTRATION' = "Running"
            /\ rtpc' = [rtpc EXCEPT ![t] = "add_bridge"]
       ELSE /\ UNCHANGED REGISTRATION
            /\ rtpc' = [rtpc EXCEPT ![t] = "blocked"]
    /\ UNCHANGED registered

\* `let mut called = false; REGISTRATION.get_or_init(...)`: entry.  The
\* OnceCell lets exactly one caller run the closure, blocks callers that
\* arrive while it runs, and lets callers that arrive afterwards through.
register_runtime_enter(t) ==
    /\ rtpc[t] = "idle"
    /\ called' = [called EXCEPT ![t] = FALSE]
    /\ rtret' = [rtret EXCEPT ![t] = "none"]
    /\ IF REGISTRATION = "Uninit"
       THEN /\ REGISTRATION' = "Running"
            /\ rtpc' = [rtpc EXCEPT ![t] = "add_bridge"]
       ELSE /\ UNCHANGED REGISTRATION
            /\ rtpc' = [rtpc EXCEPT ![t] = IF REGISTRATION = "Running" THEN "blocked" ELSE "check"]
    /\ UNCHANGED registered

\* handle.add_class::<bridge::SignalBridge>()
register_runtime_add_bridge(t) ==
    /\ rtpc[t] = "add_bridge"
    /\ registered' = [registered EXCEPT !["SignalBridge"] = @ + 1]
    /\ rtpc' = [rtpc EXCEPT ![t] = "add_func_state"]
    /\ UNCHANGED <<REGISTRATION, called, rtret>>

\* handle.add_class::<func_state::FuncState>(); called = true; closure returns
register_runtime_add_func_state(t) ==
    /\ rtpc[t] = "add_func_state"
    /\ registered' = [registered EXCEPT !["FuncState"] = @ + 1]
    /\ called' = [called EXCEPT ![t] = TRUE]
    /\ REGISTRATION' = "Init"
    /\ rtpc' = [rtpc EXCEPT ![t] = "check"]
    /\ UNCHANGED rtret

\* a caller blocked in get_or_init proceeds once the cell is initialised
register_runtime_unblock(t) ==
    /\ rtpc[t] = "blocked"
    /\ REGISTRATION = "Init"
    /\ rtpc' = [rtpc EXCEPT ![t] = "check"]
    /\ UNCHANGED <<REGISTRATION, called, rtret, registered>>

\* variant: the two branches of the final `if called` are swapped
register_runtime_return_swapped(t) ==
    /\ rtpc[t] = "check"
    /\ rtret' = [rtret EXCEPT ![t] = IF called[t] THEN "InitError" ELSE "Ok"]
    /\ rtpc' = [rtpc EXCEPT ![t] = "idle"]
    /\ UNCHANGED <<REGISTRATION, called, registered>>

\* if called { Ok(()) } else { Err(InitError::new()) }
register_runtime_return(t) ==
    /\ rtpc[t] = "check"
    /\ rtret' = [rtret EXCEPT ![t] = IF called[t] THEN "Ok" ELSE "InitError"]
    /\ rtpc' = [rtpc EXCEPT ![t] = "idle"]
    /\ UNCHANGED <<REGISTRATION, called, registered>>

RtEnter(t) ==
    /\ h_ncalls < MaxCalls
    /\ register_runtime_enter(t)
    /\ h_ncalls' = h_ncalls + 1
    /\ h_seq' = [h_seq EXCEPT ![t] = h_ncalls + 1]
    /\ h_added' = [h_added EXCEPT ![t] = 0]
    /\ h_stat' = IF rtpc'[t] = "blocked" THEN [h_stat EXCEPT !.blocked = @ + 1] ELSE h_stat
    /\ h_late' = [h_late EXCEPT ![t] = (bridge_terminated /\ REGISTRATION = "Init")]
    /\ UNCHANGED <<bridge_terminated, ctxvars, ret, hctxvars>>

RtAddBridge(t) ==
    /\ register_runtime_add_bridge(t)
    /\ h_added' = [h_added EXCEPT ![t] = @ + 1]
    /\ UNCHANGED <<bridge_terminated, ctxvars, ret, h_seq, h_ncalls, h_stat, h_late, hctxvars>>

RtAddFuncState(t) ==
    /\ register_runtime_add_func_state(t)
    /\ h_added' = [h_added EXCEPT ![t] = @ + 1]
    /\ UNCHANGED <<bridge_terminated, ctxvars, ret, h_seq, h_ncalls, h_stat, h_late, hctxvars>>

RtUnblock(t) ==
    /\ register_runtime_unblock(t)
    /\ UNCHANGED <<bridge_terminated, ctxvars, ret, hrtvars, hctxvars>>

RtReturn(t) ==
    /\ register_runtime_return(t)
    /\ h_stat' = IF rtret'[t] = "Ok" THEN [h_stat EXCEPT !.ok = @ + 1]
                 ELSE [h_stat EXCEPT !.err = @ + 1]
    /\ UNCHANGED <<bridge_terminated, ctxvars, ret, h_seq, h_ncalls, h_added, h_late, hctxvars>>

\* bridge::terminate(): release every outstanding subscription and refuse
\* further bridge operations
bridge_terminate ==
    /\ connections' = {}
    /\ bridge_terminated' = TRUE

\* variant: teardown also clears the registration cell
terminate_runtime_resets ==
    /\ bridge_terminate
    /\ REGISTRATION' = IF REGISTRATION = "Init" THEN "Uninit" ELSE REGISTRATION
    /\ UNCHANGED <<rtpc, called, rtret, registered>>

\* terminate_runtime (rt.rs)
terminate_runtime ==
    /\ bridge_terminate
    /\ UNCHANGED <<REGISTRATION, rtpc, called, rtret, registered>>

Terminate ==
    /\ terminate_runtime
    /\ UNCHANGED <<cells, func_state, notified, ret, hrtvars, hctxvars>>

NextRuntime ==
    \/ \E t \in Threads :
        \/ RtEnter(t)
        \/ RtAddBridge(t)
        \/ RtAddFuncState(t)
        \/ RtUnblock(t)
        \/ RtReturn(t)
    \/ Terminate

SpecRuntime == Init /\ [][NextRuntime]_vars

\* ------------------------------------------------ suspension cell (future)
\* future::make(): a fresh linked (future, resumer) pair over one cell.
future_make(kind) ==
    [kind |-> kind, state |-> "pending", value |-> None, waker |-> FALSE, woken |-> FALSE]

\* variant: a later write replaces the stored value
Resume_resolve_overwrite(cs, c, val) ==
    IF cs[c].state \in {"pending", "ready"}
    THEN [cs EXCEPT ![c] = [@ EXCEPT !.state = "ready",
                                     !.value = Some(val),
                                     !.woken = cs[c].waker]]
    ELSE cs

\* Resumer.resolve(value): first write wins and wakes a waiting poller; a
\* write into a cell that is already resolved, consumed or abandoned is a
\* silent no-op.
Resume_resolve(cs, c, val) ==
    IF cs[c].state = "pending"
    THEN [cs EXCEPT ![c] = [@ EXCEPT !.state = "ready",
                                     !.value = Some(val),
                                     !.woken = cs[c].waker]]
    ELSE cs

\* Future::poll: pending before resolution (registers the waker), the value
\* exactly once after it.
Yield_poll(cs, c) ==
    IF cs[c].state = "ready"
    THEN [cs EXCEPT ![c] = [@ EXCEPT !.state = "taken", !.value = None]]
    ELSE [cs EXCEPT ![c] = [@ EXCEPT !.waker = TRUE, !.woken = FALSE]]

\* dropping the future abandons the cell
Yield_drop(cs, c) ==
    [cs EXCEPT ![c] = [@ EXCEPT !.state = "dropped", !.value = None,
                                !.waker = FALSE, !.woken = FALSE]]

\* ------------------------------------------------ resumable handle (FuncState)
\* func_state::make_resumable(handle, resumer): arm with the new resumer
\* (superseding any previous one); notify unless already Resumable.
make_resumable(c) ==
    /\ func_state' = [kind |-> "Resumable", resume |-> c]
    /\ notified' = IF func_state.kind = "Resumable" THEN notified ELSE notified + 1

\* func_state::resolve(handle, value): if armed, forward to the current
\* resumer and clear the armed slot; otherwise a no-op.
func_state_resolve(v) ==
    IF func_state.kind = "Resumable"
    THEN /\ cells' = Resume_resolve(cells, func_state.resume, v)
         /\ func_state' = [kind |-> "Completed", resume |-> 0]
    ELSE UNCHANGED <<cells, func_state>>

\* ------------------------------------------------ event bridge (SignalBridge)
\* the payload handed to the callback, collected into a Vec in order
CollectArgs(p) == [i \in 1..Len(p) |-> p[i]]

\* SignalBridge::connect(obj, signal, resume): fails when the event does not
\* exist, the host rejects the subscription or the bridge machinery has been
\* shut down; nothing is left behind then.
SignalBridge_connect(name, hostAccepts, c) ==
    IF name \in SignalNames /\ hostAccepts /\ ~bridge_terminated
    THEN connections' = connections \cup {[name |-> name, cell |-> c]}
    ELSE UNCHANGED connections

ConnectOk(name, hostAccepts) ==
    name \in SignalNames /\ hostAccepts /\ ~bridge_terminated

RECURSIVE ResolveAll(_, _, _)
ResolveAll(cs, targets, val) ==
    IF targets = {} THEN cs
    ELSE LET c == CHOOSE x \in targets : TRUE
         IN ResolveAll(Resume_resolve(cs, c, val), targets \ {c}, val)

\* variant: the bridge stays subscribed after it has fired
SignalBridge_callback_persistent(name, p) ==
    LET fired == {b \in connections : b.name = name}
    IN /\ cells' = ResolveAll(cells, {b.cell : b \in fired}, CollectArgs(p))
       /\ UNCHANGED connections

\* the source emits `name` with payload p: every bridge subscribed to it
\* forwards the payload into its cell and unsubscribes itself.
SignalBridge_callback(name, p) ==
    LET fired == {b \in connections : b.name = name}
    IN /\ cells' = ResolveAll(cells, {b.cell : b \in fired}, CollectArgs(p))
       /\ connections' = connections \ fired

\* ------------------------------------------------------- Context (rt.rs)
\* variant: the resumer is never handed to the handle
until_resume_unarmed ==
    /\ Len(cells) < MaxCells
    /\ cells' = Append(cells, future_make("resume"))
    /\ ret' = "Ok"
    /\ UNCHANGED <<func_state, notified, connections>>

\* variant: a handle that is already armed keeps its earlier resumer
until_resume_keep_first ==
    /\ Len(cells) < MaxCells
    /\ cells' = Append(cells, future_make("resume"))
    /\ IF func_state.kind = "Resumable"
       THEN UNCHANGED <<func_state, notified>>
       ELSE make_resumable(Len(cells) + 1)
    /\ ret' = "Ok"
    /\ UNCHANGED connections

\* Context::until_resume
until_resume ==
    /\ Len(cells) < MaxCells
    /\ cells' = Append(cells, future_make("resume"))
    /\ make_resumable(Len(cells) + 1)
    /\ ret' = "Ok"
    /\ UNCHANGED connections

\* variant: the future is returned without connecting the bridge
signal_unconnected(name, hostAccepts) ==
    /\ Len(cells) < MaxCells
    /\ IF ConnectOk(name, hostAccepts)
       THEN /\ cells' = Append(cells, future_make("signal"))
            /\ ret' = "Ok"
       ELSE /\ UNCHANGED cells
            /\ ret' = "ConnectError"
    /\ UNCHANGED <<func_state, notified, connections>>

\* variant: after a successful connect the handle is armed as well
signal_arm_after_connect(name, hostAccepts) ==
    /\ Len(cells) < MaxCells
    /\ SignalBridge_connect(name, hostAccepts, Len(cells) + 1)
    /\ IF ConnectOk(name, hostAccepts)
       THEN /\ cells' = Append(cells, future_make("signal"))
            /\ make_resumable(Len(cells) + 1)
            /\ ret' = "Ok"
       ELSE /\ UNCHANGED <<cells, func_state, notified>>
            /\ ret' = "ConnectError"

\* variant: the handle is armed before connecting and stays armed when the
\* connection fails
signal_arm_first(name, hostAccepts) ==
    /\ Len(cells) < MaxCells
    /\ cells' = Append(cells, future_make("signal"))
    /\ make_resumable(Len(cells) + 1)
    /\ SignalBridge_connect(name, hostAccepts, Len(cells) + 1)
    /\ ret' = IF ConnectOk(name, hostAccepts) THEN "Ok" ELSE "ConnectError"

\* Context::signal: make a pair, connect the bridge with the resumer; on
\* error (`?`) both halves of the pair are dropped.
signal(name, hostAccepts) ==
    /\ Len(cells) < MaxCells
    /\ SignalBridge_connect(name, hostAccepts, Len(cells) + 1)
    /\ IF ConnectOk(name, hostAccepts)
       THEN /\ cells' = Append(cells, future_make("signal"))
            /\ ret' = "Ok"
       ELSE /\ UNCHANGED cells
            /\ ret' = "ConnectError"
    /\ UNCHANGED <<func_state, notified>>

\* variant: the handle is marked completed even when nothing was armed
resolve_marks_completed(v) ==
    /\ IF func_state.kind = "Resumable"
       THEN cells' = Resume_resolve(cells, func_state.resume, v)
       ELSE UNCHANGED cells
    /\ func_state' = [kind |-> "Completed", resume |-> 0]
    /\ ret' = "Ok"
    /\ UNCHANGED <<connections, notified>>

\* variant: the value is stored without waking the registered waker
resolve_no_wake(v) ==
    /\ IF func_state.kind = "Resumable"
       THEN /\ cells' = [cells EXCEPT ![func_state.resume] =
                            IF @.state = "pending"
                            THEN [@ EXCEPT !.state = "ready", !.value = Some(v)]
                            ELSE @]
            /\ func_state' = [kind |-> "Completed", resume |-> 0]
       ELSE UNCHANGED <<cells, func_state>>
    /\ ret' = "Ok"
    /\ UNCHANGED <<connections, notified>>

\* Context::resolve
resolve(v) ==
    /\ func_state_resolve(v)
    /\ ret' = "Ok"
    /\ UNCHANGED <<connections, notified>>

\* the host calls resume(value) on the handle
FuncState_resume(v) ==
    /\ func_state_resolve(v)
    /\ ret' = "Ok"
    /\ UNCHANGED <<connections, notified>>

\* the event source emits an event it exposes
emit_signal(name, p) ==
    /\ SignalBridge_callback(name, p)
    /\ ret' = "Ok"
    /\ UNCHANGED <<func_state, notified>>

\* variant: a poll reports the future ready whether or not it was resolved
poll_eager(c) ==
    /\ c \in 1..Len(cells)
    /\ cells[c].state \in {"pending", "ready"}
    /\ cells' = [cells EXCEPT ![c] = [@ EXCEPT !.state = "taken", !.value = None]]
    /\ ret' = "Ready"
    /\ UNCHANGED <<func_state, connections, notified>>

\* the executor polls a live future
poll(c) ==
    /\ c \in 1..Len(cells)
    /\ cells[c].state \in {"pending", "ready"}
    /\ cells' = Yield_poll(cells, c)
    /\ ret' = IF cells[c].state = "ready" THEN "Ready" ELSE "Pending"
    /\ UNCHANGED <<func_state, connections, notified>>

\* variant: the bridge of a dropped future stays subscribed
drop_keep_bridge(c) ==
    /\ c \in 1..Len(cells)
    /\ cells[c].state \in {"pending", "ready"}
    /\ cells' = Yield_drop(cells, c)
    /\ ret' = "Ok"
    /\ UNCHANGED <<func_state, connections, notified>>

\* the application drops an unresolved future; a bridge targeting it
\* unsubscribes
drop(c) ==
    /\ c \in 1..Len(cells)
    /\ cells[c].state \in {"pending", "ready"}
    /\ cells' = Yield_drop(cells, c)
    /\ connections' = {b \in connections : b.cell # c}
    /\ ret' = "Ok"
    /\ UNCHANGED <<func_state, notified>>

\* ------------------------------------------------- steps with their history
Promised(c) == h_expect[c] # None
PromisedValue(c) == h_expect[c][1]

\* a resolve reaches the most recent until_resume future, if one is waiting
HistResolve(v) ==
    /\ h_expect' = IF h_pendingUR # 0 THEN [h_expect EXCEPT ![h_pendingUR] = Some(v)]
                   ELSE h_expect
    /\ h_pendingUR' = 0
    /\ UNCHANGED <<h_superseded, h_sub, h_after, h_yielded>>

CallUntilResume ==
    /\ until_resume
    /\ h_pendingUR' = Len(cells) + 1
    /\ h_superseded' = IF h_pendingUR # 0
                       THEN [h_superseded EXCEPT ![h_pendingUR] = Len(cells) + 1]
                       ELSE h_superseded
    /\ h_after' = [h_after EXCEPT ![Len(cells) + 1] =
                       IF h_last \in {"fail", "noop"} THEN h_last ELSE ""]
    /\ h_last' = "until_resume"
    /\ UNCHANGED <<h_expect, h_sub, h_yielded>>
    /\ UNCHANGED <<rtvars, hrtvars>>

CallSignal(name, hostAccepts) ==
    /\ signal(name, hostAccepts)
    /\ h_sub' = IF ret' = "Ok" THEN [h_sub EXCEPT ![Len(cells) + 1] = name] ELSE h_sub
    /\ h_last' = IF ret' = "Ok" THEN "signal" ELSE "fail"
    /\ UNCHANGED <<h_expect, h_pendingUR, h_superseded, h_after, h_yielded>>
    /\ UNCHANGED <<rtvars, hrtvars>>

CallResolve(v) ==
    /\ resolve(v)
    /\ HistResolve(v)
    /\ h_last' = IF func_state.kind = "Resumable" THEN "resolve" ELSE "noop"
    /\ UNCHANGED <<rtvars, hrtvars>>

HostResume(v) ==
    /\ FuncState_resume(v)
    /\ HistResolve(v)
    /\ h_last' = "resume"
    /\ UNCHANGED <<rtvars, hrtvars>>

\* the futures subscribed to `name` that have not seen an emission yet
Waiting(name) == {c \in CellIds : h_sub[c] = name /\ ~Promised(c)}

HostEmit(name, p) ==
    /\ emit_signal(name, p)
    /\ h_expect' = [c \in CellIds |-> IF c \in Waiting(name) THEN Some(p) ELSE h_expect[c]]
    /\ h_last' = IF \E c \in CellIds : h_sub[c] = name /\ Promised(c) /\ PromisedValue(c) # p
                 THEN "reemit" ELSE "emit"
    /\ UNCHANGED <<h_pendingUR, h_superseded, h_sub, h_after, h_yielded>>
    /\ UNCHANGED <<rtvars, hrtvars>>

Poll(c) ==
    /\ poll(c)
    /\ h_yielded' = IF ret' = "Ready" THEN [h_yielded EXCEPT ![c] = cells[c].value]
                    ELSE h_yielded
    /\ h_last' = "poll"
    /\ UNCHANGED <<h_expect, h_pendingUR, h_superseded, h_sub, h_after>>
    /\ UNCHANGED <<rtvars, hrtvars>>

Drop(c) ==
    /\ drop(c)
    /\ h_sub' = [h_sub EXCEPT ![c] = ""]
    /\ h_pendingUR' = IF h_pendingUR = c THEN 0 ELSE h_pendingUR
    /\ h_last' = "drop"
    /\ UNCHANGED <<h_expect, h_superseded, h_after, h_yielded>>
    /\ UNCHANGED <<rtvars, hrtvars>>

NextContext ==
    \/ CallUntilResume
    \/ \E name \in RequestedNames, hostAccepts \in BOOLEAN : CallSignal(name, hostAccepts)
    \/ \E v \in Variants : CallResolve(v)
    \/ \E v \in Variants : HostResume(v)
    \/ \E name \in SignalNames, p \in Payloads : HostEmit(name, p)
    \/ \E c \in CellIds : Poll(c)
    \/ \E c \in CellIds : Drop(c)

Spec == Init /\ [][NextContext]_vars

\* a fair executor: it polls a future it has not polled yet, and polls it
\* again once its waker has been woken
ExecutorPoll(c) ==
    /\ c \in 1..Len(cells)
    /\ cells[c].woken \/ ~cells[c].waker
    /\ Poll(c)

\* the handle's side of a Context (no event source), driven by a fair executor
NextHandle ==
    \/ CallUntilResume
    \/ \E v \in Variants : CallResolve(v)
    \/ \E v \in Variants : HostResume(v)
    \/ \E c \in CellIds : Poll(c)
    \/ \E c \in CellIds : Drop(c)

SpecFair == Init /\ [][NextHandle]_vars /\ \A c \in CellIds : WF_vars(ExecutorPoll(c))

\* ------------------------------------------- the suspension cell on its own
\* make() hands out a linked pair
CellMake ==
    /\ Len(cells) < MaxCells
    /\ cells' = Append(cells, future_make("resume"))
    /\ ret' = "Ok"
    /\ h_last' = "make"
    /\ UNCHANGED <<func_state, connections, notified>>
    /\ UNCHANGED <<h_expect, h_pendingUR, h_superseded, h_sub, h_after, h_yielded>>
    /\ UNCHANGED <<rtvars, hrtvars>>

\* Resumer.resolve(v) on the cell of pair c
CellResolve(c, v) ==
    /\ c \in 1..Len(cells)
    /\ cells' = Resume_resolve(cells, c, v)
    /\ ret' = "Ok"
    /\ h_expect' = IF Promised(c) THEN h_expect ELSE [h_expect EXCEPT ![c] = Some(v)]
    /\ h_last' = IF Promised(c) /\ PromisedValue(c) # v THEN "rewrite" ELSE "write"
    /\ UNCHANGED <<func_state, connections, notified>>
    /\ UNCHANGED <<h_pendingUR, h_superseded, h_sub, h_after, h_yielded>>
    /\ UNCHANGED <<rtvars, hrtvars>>

NextCell ==
    \/ CellMake
    \/ \E c \in CellIds, v \in Variants : CellResolve(c, v)
    \/ \E c \in CellIds : Poll(c)
    \/ \E c \in CellIds : Drop(c)

SpecCell == Init /\ [][NextCell]_vars

\* =================================================================== claims

\* C1: among the register_runtime calls of one process, the first call
\* returns Ok(()) and every later call returns Err(InitError).
C1_FirstOkLaterInitError ==
    \A t \in Threads :
        /\ rtret[t] = "Ok" => h_seq[t] = 1
        /\ rtret[t] = "InitError" => h_seq[t] > 1
        /\ (rtpc[t] = "idle" /\ h_seq[t] > 0) => rtret[t] \in {"Ok", "InitError"}

\* the first call has returned Ok and the same thread's next call InitError,
\* after another thread's call
C1_Witness ==
    \E t, u \in Threads :
        /\ t # u
        /\ rtret[t] = "Ok"
        /\ rtret[u] = "InitError" /\ h_seq[u] = 2 /\ rtpc[u] = "idle"
        /\ h_ncalls >= 3

\* C2: each host class is registered at most once, and a register_runtime
\* call that returns InitError has made no add_class call.
C2_RegisteredAtMostOnce ==
    /\ \A k \in HostClasses : registered[k] <= 1
    /\ \A t \in Threads : rtret[t] = "InitError" => h_added[t] = 0

\* both classes are registered and a later call came back with InitError
C2_Witness ==
    /\ \A k \in HostClasses : registered[k] = 1
    /\ \E t \in Threads : rtret[t] = "InitError" /\ rtpc[t] = "idle"

\* ---------------------------------------------------------------- helpers
Live == 1..Len(cells)

\* the future of cell c holds or has yielded exactly val, unless it was dropped
Delivered(c, val) ==
    \/ cells[c].state = "dropped"
    \/ cells[c].state = "ready" /\ cells[c].value = Some(val)
    \/ cells[c].state = "taken" /\ h_yielded[c] = Some(val)

\* C3: a future returned by until_resume() whose handle is then resolved with
\* v (host resume or Context.resolve), with no other until_resume in between,
\* yields exactly v.
C3_UntilResumeYieldsResolved ==
    \A c \in Live :
        cells[c].kind = "resume" =>
            /\ Promised(c) => Delivered(c, PromisedValue(c))
            /\ h_yielded[c] # None => h_yielded[c] = h_expect[c]

\* an until_resume future has been resolved and has yielded the value
C3_Witness ==
    \E c \in Live :
        /\ cells[c].kind = "resume" /\ Promised(c)
        /\ cells[c].state = "taken" /\ h_yielded[c] = h_expect[c]

\* C4: most recent wins: with futures f1 then f2 armed and no resolve in
\* between, a following resolve(v) makes f2 yield v, and f1 never receives a
\* value (it stays pending).
C4_MostRecentWins ==
    \A c1 \in Live :
        h_superseded[c1] # 0 =>
            /\ cells[c1].state \in {"pending", "dropped"}
            /\ h_yielded[c1] = None
            /\ Promised(h_superseded[c1]) =>
                   Delivered(h_superseded[c1], PromisedValue(h_superseded[c1]))

\* f1 was polled and superseded; f2 has yielded the resolved value
C4_Witness ==
    \E c1 \in Live :
        /\ h_superseded[c1] # 0
        /\ cells[c1].state = "pending" /\ cells[c1].waker
        /\ Promised(h_superseded[c1])
        /\ h_yielded[h_superseded[c1]] = h_expect[h_superseded[c1]]

\* C5: a future returned by a successful signal(obj, name) yields the payload
\* of the event's emission, same elements in the same order.
C5_SignalYieldsPayload ==
    \A c \in Live :
        cells[c].kind = "signal" =>
            /\ Promised(c) => Delivered(c, PromisedValue(c))
            /\ h_yielded[c] # None => h_yielded[c] = h_expect[c]

\* a signal future has yielded a two-element payload with distinct elements
C5_Witness ==
    \E c \in Live :
        /\ cells[c].kind = "signal"
        /\ cells[c].state = "taken"
        /\ h_yielded[c] = Some(<<2, 1>>)

\* C6 as stated: a successful signal() leaves the Context's handle in the
\* Resumable state.
C6_SignalArmsHandle ==
    [][\A name \in RequestedNames, hostAccepts \in BOOLEAN :
          (h_last' = "signal" /\ CallSignal(name, hostAccepts))
              => func_state'.kind = "Resumable"]_vars

\* C6 amended: a successful signal() leaves the Context's handle as it was
\* (no arming, no notification) and subscribes a bridge for the new future.
C6_SignalLeavesHandle ==
    [][\A name \in RequestedNames, hostAccepts \in BOOLEAN :
          (h_last' = "signal" /\ CallSignal(name, hostAccepts)) =>
              /\ ret' = "Ok"
              /\ func_state' = func_state
              /\ notified' = notified
              /\ Len(cells') = Len(cells) + 1
              /\ connections' = connections \cup
                     {[name |-> name, cell |-> Len(cells')]}]_vars

\* signal() has succeeded on a handle that was never armed, and its bridge
\* is subscribed
C6_Witness ==
    /\ func_state.kind = "Idle"
    /\ \E b \in connections : b.cell = Len(cells) /\ cells[b.cell].kind = "signal"

\* C7: a signal() that fails to connect returns the error, leaves handle,
\* cells and subscriptions as they were, and a following until_resume()
\* future is still resolved by a later resolve(v).
C7_ConnectFailureLeavesNothing ==
    /\ [][\A name \in RequestedNames, hostAccepts \in BOOLEAN :
             (h_last' \in {"signal", "fail"} /\ ~ConnectOk(name, hostAccepts)
                  /\ CallSignal(name, hostAccepts))
                 => (ret' = "ConnectError" /\ UNCHANGED ctxvars)]_vars
    /\ [](/\ \A b \in connections : b.cell \in Live /\ cells[b.cell].kind = "signal"
          /\ \A c \in Live : (h_after[c] = "fail" /\ Promised(c))
                                 => Delivered(c, PromisedValue(c)))

\* signal() failed, the next until_resume() future was resolved and yielded
C7_Witness ==
    \E c \in Live :
        /\ h_after[c] = "fail" /\ Promised(c)
        /\ cells[c].state = "taken" /\ h_yielded[c] = h_expect[c]

\* C8: the bridge is one-shot: the first emission resolves the future with
\* its payload and unsubscribes; later emissions (those that reach no future
\* still waiting for its first one) change nothing.
C8_BridgeOneShot ==
    /\ [][(h_last' \in {"emit", "reemit"} /\ h_expect' = h_expect)
             => UNCHANGED ctxvars]_vars
    /\ [](\A c \in Live :
             (cells[c].kind = "signal" /\ Promised(c)) =>
                 /\ Delivered(c, PromisedValue(c))
                 /\ \A b \in connections : b.cell # c)

\* the event was emitted again with another payload; the future still holds
\* the first one
C8_Witness ==
    /\ h_last = "reemit"
    /\ \E c \in Live :
        /\ cells[c].kind = "signal" /\ Promised(c)
        /\ cells[c].state = "ready" /\ cells[c].value = h_expect[c]

\* C9: a cell is written at most once: after resolve(a) then resolve(b) the
\* future yields a, and the second resolve changes nothing.
C9_CellWrittenOnce ==
    /\ [][\A c \in CellIds, v \in Variants :
             (Promised(c) /\ CellResolve(c, v)) => cells' = cells]_vars
    /\ [](\A c \in Live : Promised(c) => Delivered(c, PromisedValue(c)))

\* a cell resolved with one value and then with another still holds the first
C9_Witness ==
    /\ h_last = "rewrite"
    /\ \E c \in Live :
        /\ Promised(c)
        /\ cells[c].state = "ready" /\ cells[c].value = h_expect[c]

\* C10: Context.resolve(v) on a handle that is not armed changes nothing and
\* returns no error; v is not kept, so a future armed later is resolved only
\* by a resolve that comes after its arming.
C10_UnarmedResolveNoOp ==
    /\ [][\A v \in Variants :
             (h_last' = "noop" /\ CallResolve(v))
                 => (UNCHANGED ctxvars /\ ret' = "Ok")]_vars
    /\ [](\A c \in Live :
             (cells[c].kind = "resume" /\ cells[c].state \in {"ready", "taken"})
                 => Promised(c))

\* resolve(v) was called on an unarmed handle, a future was armed right
\* after it and has been polled: it is pending
C10_Witness ==
    \E c \in Live :
        /\ h_after[c] = "noop"
        /\ cells[c].kind = "resume" /\ cells[c].state = "pending" /\ cells[c].waker
        /\ ~Promised(c)
        /\ func_state = [kind |-> "Resumable", resume |-> c]

\* C11: the "became resumable" notification is emitted exactly once per
\* transition of the handle into Resumable: arming an Idle or Completed
\* handle emits it, arming a handle that is already Resumable does not, and
\* arming again after a resolve emits a fresh one.
C11_NotifiedOncePerTransition ==
    /\ [][notified' = notified +
             (IF func_state.kind # "Resumable" /\ func_state'.kind = "Resumable"
              THEN 1 ELSE 0)]_vars
    /\ [][h_last' = "until_resume" => func_state'.kind = "Resumable"]_vars

\* the handle was armed, resolved and armed again: two notifications
C11_Witness ==
    /\ Len(cells) = 2
    /\ cells[1].kind = "resume" /\ Promised(1)
    /\ func_state = [kind |-> "Resumable", resume |-> 2]
    /\ notified = 2

\* resumers that can still deliver a value to their future: held by the
\* handle or by a subscribed bridge, over a cell that is still pending
HeldByHandle == {c \in Live : func_state = [kind |-> "Resumable", resume |-> c]}
HeldByBridge == {c \in Live : \E b \in connections : b.cell = c}
LiveResumers == {c \in HeldByHandle \cup HeldByBridge : cells[c].state = "pending"}

\* C12 as stated: at most one resumer created from the Context is armed and
\* unresolved at any time.
C12_AtMostOneLiveResumer ==
    Cardinality(LiveResumers) <= 1

\* C12 amended: at most one until_resume() resumer is live at a time and the
\* handle holds no other kind; every live signal() resumer is held by its own
\* bridge subscription, next to the handle's one.
C12_OneLivePerHandleAndBridge ==
    /\ \A c \in HeldByHandle : cells[c].kind = "resume"
    /\ \A c \in HeldByBridge : cells[c].kind = "signal" /\ cells[c].state = "pending"
    /\ \A c \in Live :
           (cells[c].kind = "resume" /\ c \notin HeldByHandle /\ cells[c].state = "pending")
               => ~Promised(c)
    /\ Cardinality(LiveResumers) <= 1 + Cardinality(connections)

\* an until_resume() future and a signal() future are both live
C12_Witness ==
    \E c1, c2 \in LiveResumers :
        /\ cells[c1].kind = "resume" /\ cells[c2].kind = "signal"
        /\ Cardinality(LiveResumers) = 2

\* C13: a future yields no value before its cell has been resolved: a poll
\* made before the resolve or emission that reaches the future returns
\* pending, and after it the value is yielded once.
C13_NoYieldBeforeResolve ==
    /\ [][\A c \in CellIds :
             (h_last' = "poll" /\ Poll(c)) =>
                 /\ ~Promised(c) => (ret' = "Pending" /\ cells'[c].state = "pending")
                 /\ ret' = "Ready" =>
                        (/\ cells[c].state = "ready"
                         /\ cells'[c].state = "taken" /\ cells'[c].value = None
                         /\ h_yielded'[c] = h_expect[c])]_vars
    /\ [][\A c \in CellIds : h_yielded[c] # None => h_yielded'[c] = h_yielded[c]]_vars
    /\ [](\A c \in Live : h_yielded[c] # None => (Promised(c) /\ cells[c].state = "taken"))

\* a future was polled before its resolve (pending, waker registered, woken
\* by the resolve) and has then yielded the value
C13_Witness ==
    \E c \in Live :
        /\ cells[c].waker /\ cells[c].woken
        /\ cells[c].state = "taken" /\ Promised(c) /\ h_yielded[c] = h_expect[c]

\* C15: dropping the future returned by signal() before the event fires is
\* safe and leaves no dangling callback: the bridge is unsubscribed with the
\* drop, and a later emission writes into no cell and changes no state.
C15_DropUnsubscribes ==
    /\ [](\A b \in connections : b.cell \in Live /\ cells[b.cell].state = "pending")
    /\ [](\A c \in Live : cells[c].state = "dropped" => cells[c].value = None)
    /\ [][\A c \in CellIds :
             (c \in Live /\ cells[c].state = "dropped") => cells'[c] = cells[c]]_vars
    /\ [][(h_last' \in {"emit", "reemit"} /\ connections = {}) => UNCHANGED ctxvars]_vars

\* a signal() future was dropped before the event fired, and the event has
\* been emitted since
C15_Witness ==
    /\ h_last = "emit"
    /\ Len(cells) = 1
    /\ cells[1].kind = "signal" /\ cells[1].state = "dropped" /\ ~Promised(1)
    /\ connections = {}

\* C14: no lost wake-up: when a future that was polled (pending) is resolved,
\* its registered waker is woken, so under a fair executor the most recently
\* armed future of a resolved handle eventually completes with the value,
\* whichever of the first poll and the resolve came first.
C14_NoLostWakeup ==
    /\ [](\A c \in Live : (cells[c].state = "ready" /\ cells[c].waker) => cells[c].woken)
    /\ \A c \in CellIds :
           (c \in Live /\ cells[c].kind = "resume" /\ Promised(c))
               ~> (/\ c \in Live
                   /\ \/ cells[c].state = "taken" /\ h_yielded[c] = h_expect[c]
                      \/ cells[c].state = "dropped")

\* an until_resume() future was polled, then resolved: its waker was woken
C14_Witness ==
    \E c \in Live :
        /\ cells[c].kind = "resume" /\ Promised(c)
        /\ cells[c].state = "ready" /\ cells[c].waker /\ cells[c].woken

AllReturned == \A t \in Threads : rtpc[t] = "idle"

\* C16: with register_runtime called from several threads at once, exactly
\* one call returns Ok(()), all others return Err(InitError), and the
\* registration closure (add_class for both classes) runs exactly once.
C16_ExactlyOneWinner ==
    /\ h_stat.ok <= 1
    /\ \A k \in HostClasses : registered[k] <= 1
    /\ Cardinality({t \in Threads : rtpc[t] \in {"add_bridge", "add_func_state"}}) <= 1
    /\ (AllReturned /\ h_ncalls > 0) =>
           /\ h_stat.ok = 1
           /\ h_stat.err = h_ncalls - 1
           /\ \A k \in HostClasses : registered[k] = 1

\* calls overlapped (one had to wait for the running closure); all have
\* returned: one Ok, the others InitError
C16_Witness ==
    /\ AllReturned
    /\ h_stat.blocked >= 1
    /\ h_stat.ok = 1 /\ h_stat.err >= 2
    /\ \A k \in HostClasses : registered[k] = 1

\* C17: a call returns Err(InitError) only after the winning call has
\* registered both classes; no caller gets past get_or_init without having
\* run the closure while the registration is still in progress.
C17_InitErrorAfterRegistration ==
    \A t \in Threads :
        ((rtpc[t] = "check" /\ ~called[t]) \/ rtret[t] = "InitError") =>
            /\ REGISTRATION = "Init"
            /\ \A k \in HostClasses : registered[k] = 1

\* the second call waited for the first one's closure and has returned
\* InitError before the first call returned
C17_Witness ==
    \E t, u \in Threads :
        /\ h_seq[t] = 1 /\ rtpc[t] = "check" /\ called[t]
        /\ h_seq[u] = 2 /\ rtpc[u] = "idle" /\ rtret[u] = "InitError"
        /\ h_stat.blocked = 1

\* C18: terminate_runtime leaves the registration state as it is, so a
\* register_runtime call made after a completed registration and a
\* terminate_runtime returns Err(InitError) and registers nothing.
C18_TerminateKeepsRegistration ==
    /\ [][bridge_terminated' # bridge_terminated
             => UNCHANGED <<REGISTRATION, registered, rtpc, called, rtret>>]_vars
    /\ [](\A t \in Threads :
             (h_late[t] /\ rtpc[t] = "idle") => (rtret[t] = "InitError" /\ h_added[t] = 0))
    /\ [](bridge_terminated => \A k \in HostClasses : registered[k] <= 1)

\* registration completed, the runtime was terminated, and a call made after
\* that has returned InitError
C18_Witness ==
    /\ bridge_terminated
    /\ \E t \in Threads : h_late[t] /\ rtpc[t] = "idle" /\ rtret[t] = "InitError"
    /\ \A k \in HostClasses : registered[k] = 1
====
